---- MODULE Spec2Model ----
(***************************************************************************)
(* The documentation-improvement workflow of backend/agents/orchestrator.py *)
(* (Orchestrator.analyze_issue and its helpers), the rubric arithmetic of   *)
(* backend/agents/judge.py and the tables of backend/database/models.py.    *)
(*                                                                          *)
(* Scores are integers: a sub-score is held in tenths (70 is 7.0) and a     *)
(* weighted total in hundredths (655 is 6.55).  Sums and differences are    *)
(* exact; only where round() meets a sum half way between two hundredths    *)
(* is the direction left open, as it is on doubles.                         *)
(*                                                                          *)
(* Spec is one call of analyze_issue, FairSpec the same call carried on to  *)
(* its end, SpecTwo two interleaved calls on different issues, JudgeSpec    *)
(* the judge evaluating and comparing two responses on its own.             *)
(*                                                                          *)
(* Fault model: every collaborator call and every db.commit() of the main   *)
(* path either succeeds or raises.  A commit that raises leaves the writes  *)
(* pending since the previous commit unapplied (the session rolls back).    *)
(* The writes of the exception handler itself fail only when the database   *)
(* rejects them (a unique constraint).                                      *)
(***************************************************************************)
EXTENDS Integers, Sequences, FiniteSets, TLC

VARIABLES
    max_iterations,          \* Orchestrator.max_iterations
    improvement_iterations,  \* Orchestrator.improvement_iterations
    loc,                     \* the frame of each analyze_issue call
    obs,                     \* per call: what has been observed of it so far
    issues,                  \* table issues
    analyses,                \* table documentation_analysis, by analysis id
    iterations,              \* table rewrite_iterations
    rubric_scores,           \* table rubric_scores
    review_queue,            \* table review_queue
    judge,                   \* the frame of a caller of the judge alone
    oracle                   \* the responses the judge's model may give

vars == <<max_iterations, improvement_iterations, loc, obs, issues, analyses,
          iterations, rubric_scores, review_queue, judge, oracle>>

cfg == <<max_iterations, improvement_iterations, oracle>>

\* ------------------------------------------------------------------ bounds
MaxRounds == 3
MaxPatience == 2

\* --------------------------------------------------------------- constants
None == -1

Runs == {"r1", "r2"}

\* the issue number each call is given
IssueNumbers == [r \in Runs |-> IF r = "r1" THEN 101 ELSE 102]

\* ------------------------------------------------------------------- judge
Criteria == <<"accuracy", "clarity", "completeness", "examples", "structure",
              "discoverability">>

CriteriaSet == {Criteria[i] : i \in 1..Len(Criteria)}

Uniform(v) == [c \in CriteriaSet |-> v]

\* no evaluation: the value of a frame's evaluation before the judge returned
\* one
NoEvaluation ==
    [raised |-> FALSE, scores |-> Uniform(None), total_score |-> None,
     improvement_suggestions |-> <<>>, overall_reasoning |-> ""]

\* evaluate_documentation raised Exception("Evaluation failed: ...")
EvaluationFailed == [NoEvaluation EXCEPT !.raised = TRUE]

\* WEIGHTS with 0.25 for clarity
WEIGHTSClarity25 ==
    [accuracy |-> 30, clarity |-> 25, completeness |-> 20,
     examples |-> 15, structure |-> 10, discoverability |-> 5]

\* Judge.WEIGHTS, in hundredths
WEIGHTS == [accuracy |-> 30, clarity |-> 20, completeness |-> 20,
            examples |-> 15, structure |-> 10, discoverability |-> 5]

\* round(x, 2) of the double x computed for a sum that is n thousandths: the
\* nearest hundredth.  When n lies half way between two hundredths the double
\* lies just above or just below it, by the rounding errors of the products
\* and of the sum: `up` says which.
Round2(n, up) ==
    LET q == n \div 10
        r == n % 10
    IN  IF r < 5 THEN q
        ELSE IF r > 5 THEN q + 1
        ELSE IF up THEN q + 1 ELSE q

RECURSIVE WeightedSum(_, _)
WeightedSum(scores, i) ==
    IF i = 0 THEN 0
    ELSE scores[Criteria[i]] * WEIGHTS[Criteria[i]] + WeightedSum(scores, i - 1)

\* the weighted total of evaluate_documentation, in hundredths
TotalScore(scores, up) == Round2(WeightedSum(scores, Len(Criteria)), up)

\* result['<criterion>_score'] is there for each of the six criteria; a
\* missing one is a KeyError inside the try block of evaluate_documentation
WellFormed(response) == CriteriaSet \subseteq DOMAIN response.scores

\* a sub-score of the response is outside the rubric's range 1.0 .. 10.0
OutOfRange(response) ==
    \E c \in DOMAIN response.scores : response.scores[c] \notin 10..100

\* dict.get(key, 0)
Get(scores, c) == IF c \in DOMAIN scores THEN scores[c] ELSE 0

\* a score brought into the range 1.0 .. 10.0
Clamp(v) == IF v < 10 THEN 10 ELSE IF v > 100 THEN 100 ELSE v

\* EvaluateDocumentation with the sub-scores clamped to the rubric's range
EvaluateDocumentationClamped(response, up) ==
    IF WellFormed(response)
    THEN LET scores ==
                 [c \in DOMAIN response.scores |-> Clamp(response.scores[c])]
         IN  [raised |-> FALSE,
              scores |-> scores,
              total_score |-> TotalScore(scores, up),
              improvement_suggestions |-> response.improvement_suggestions,
              overall_reasoning |-> response.overall_reasoning]
    ELSE EvaluationFailed

\* EvaluateDocumentation with a missing sub-score read as 0 (dict.get)
EvaluateDocumentationDefaulting(response, up) ==
    [raised |-> FALSE,
     scores |-> response.scores,
     total_score |->
         TotalScore([c \in CriteriaSet |-> Get(response.scores, c)], up),
     improvement_suggestions |-> response.improvement_suggestions,
     overall_reasoning |-> response.overall_reasoning]

\* what evaluate_documentation ends with for the oracle's response: the
\* response with its weighted total, or the exception that wraps the KeyError
\* of a missing sub-score
EvaluateDocumentation(response, up) ==
    IF WellFormed(response)
    THEN [raised |-> FALSE,
          scores |-> response.scores,
          total_score |-> TotalScore(response.scores, up),
          improvement_suggestions |-> response.improvement_suggestions,
          overall_reasoning |-> response.overall_reasoning]
    ELSE EvaluationFailed

\* ClassifyDiff with >= and <= for > and <
ClassifyDiffInclusive(diff) ==
    IF diff >= 5 THEN "improvement"
    ELSE IF diff <= -5 THEN "regression"
    ELSE "neutral"

\* ClassifyDiff with >= for > on the improvement side only
ClassifyDiffLopsided(diff) ==
    IF diff >= 5 THEN "improvement"
    ELSE IF diff < -5 THEN "regression"
    ELSE "neutral"

\* compare_scores: how the difference of one criterion is classified
ClassifyDiff(diff) ==
    IF diff > 5 THEN "improvement"
    ELSE IF diff < -5 THEN "regression"
    ELSE "neutral"

RECURSIVE Classified(_, _, _, _)
\* the criteria, in rubric order from the i-th on, that compare_scores puts in
\* class `class`
Classified(original, rewritten, class, i) ==
    IF i > Len(Criteria) THEN <<>>
    ELSE LET c == Criteria[i]
             diff == Get(rewritten.scores, c) - Get(original.scores, c)
         IN  (IF ClassifyDiff(diff) = class THEN <<c>> ELSE <<>>)
             \o Classified(original, rewritten, class, i + 1)

CompareScores(original, rewritten) ==
    LET total_improvement == rewritten.total_score - original.total_score
    IN  [total_improvement |-> total_improvement,
         improved |-> total_improvement > 0,
         improvements |-> Classified(original, rewritten, "improvement", 1),
         regressions |-> Classified(original, rewritten, "regression", 1),
         original_total |-> original.total_score,
         rewritten_total |-> rewritten.total_score]

\* ------------------------------------------- what the collaborators return
\* responses of the judgment oracle: four score vectors of different totals,
\* with the shapes of feedback the orchestrator tells apart (more than three
\* suggestions, fewer than three, none but a reasoning, neither)
JudgeResponses ==
    {[scores |-> Uniform(80),
      improvement_suggestions |-> <<"s1", "s2">>,
      overall_reasoning |-> ""],
     [scores |-> Uniform(50),
      improvement_suggestions |-> <<"s1", "s2", "s3", "s4">>,
      overall_reasoning |-> "reasoning"],
     [scores |-> [accuracy |-> 80, clarity |-> 40, completeness |-> 60,
                  examples |-> 60, structure |-> 40, discoverability |-> 60],
      improvement_suggestions |-> <<>>,
      overall_reasoning |-> "reasoning"],
     [scores |-> Uniform(70),
      improvement_suggestions |-> <<>>,
      overall_reasoning |-> ""]}

\* responses of the oracle that lack one of the six sub-scores
MalformedResponses ==
    {[scores |-> [c \in CriteriaSet \ {missing} |-> 80],
      improvement_suggestions |-> <<>>,
      overall_reasoning |-> ""] : missing \in CriteriaSet}

\* a response of the oracle with a sub-score above the rubric's range: 12.0
\* for accuracy
OutOfRangeResponses ==
    {[scores |-> [Uniform(80) EXCEPT !.accuracy = 120],
      improvement_suggestions |-> <<>>,
      overall_reasoning |-> ""]}

\* the responses whose sub-scores, where present, are within the range
InRangeResponses == JudgeResponses \cup MalformedResponses

\* everything the model may answer
OracleResponses == InRangeResponses \cup OutOfRangeResponses

TheDoc == [url |-> "doc_url", content |-> "doc_content"]

DocResults == {<<>>, <<TheDoc>>}

\* --------------------------------------------------------------- the state
\* previous_feedback: None, or a text held as its lines
NoFeedback == [given |-> FALSE, lines |-> <<>>]

Feedback(lines) == [given |-> TRUE, lines |-> lines]

NoResult == [kind |-> "none", value |-> "none"]

Returned(id) == [kind |-> "returned", value |-> id]

Raised(e) == [kind |-> "raised", value |-> e]

\* a row of documentation_analysis; NoRow stands for the row not being there
NoRow ==
    [exists |-> FALSE, issue_id |-> <<"issue", "none">>, is_doc_issue |-> FALSE,
     status |-> "none", doc_url |-> "None", best_iteration_number |-> None,
     total_iterations |-> 0, completed_at |-> FALSE]

\* models.DocumentationAnalysis(issue_id=..., is_doc_issue=False,
\* status="processing"), the other columns at their defaults
NewAnalysis(issue_id) ==
    [exists |-> TRUE, issue_id |-> issue_id, is_doc_issue |-> FALSE,
     status |-> "processing", doc_url |-> "None", best_iteration_number |-> None,
     total_iterations |-> 0, completed_at |-> FALSE]

InitFrame(started, issue_number) ==
    [pc |-> IF started THEN "get_issue" ELSE "idle",
     issue_number |-> issue_number,
     issue_found |-> FALSE,
     db_issue |-> <<"issue", "none">>,
     is_doc_issue |-> FALSE,
     doc_results |-> <<>>,
     original_evaluation |-> NoEvaluation,
     original_score |-> None,
     best_iteration |-> None,
     best_score |-> None,
     iterations_since_improvement |-> 0,
     previous_feedback |-> NoFeedback,
     iteration_num |-> 0,
     rewrite_result |-> <<"content", 0>>,
     evaluation |-> NoEvaluation,
     current_score |-> None,
     e |-> "none",
     result |-> NoResult]

\* what is recorded of a call for the properties below: how often each
\* collaborator was called, how often _flag_for_review was entered and how
\* often it was entered for an analysis that already had its review item, the
\* first exception a step raised and the step that raised it, the totals of
\* the rounds in the order the loop tracked them, whether the oracle answered
\* without one of the sub-scores or with one out of range, the arguments of
\* each call of the rewriter, the evaluations of the rewrites, how often the
\* judge was called on the original and what it then returned
InitObs ==
    [classifier_calls |-> 0, locator_calls |-> 0, judge_calls |-> 0,
     rewriter_calls |-> 0, flag_attempts |-> 0, flag_rejections |-> 0,
     first_error |-> "none", failed_step |-> "none", totals |-> <<>>,
     missing_sub_score |-> FALSE, out_of_range_score |-> FALSE,
     rewriter_inputs |-> <<>>,
     evaluations |-> <<>>,
     original_judge_calls |-> 0, baselines |-> <<>>]

\* the calls in `started` are entered, on a database that holds no row of
\* theirs except, possibly, the issues they are given
InitCalls(started, numbers) ==
    /\ loc = [r \in Runs |-> InitFrame(r \in started, numbers[r])]
    /\ obs = [r \in Runs |-> InitObs]
    /\ issues \in {{}, {[id |-> <<"old", n>>, issue_number |-> n,
                          title |-> "old"] : n \in {numbers[r] : r \in started}}}
    /\ analyses = [r \in Runs |-> NoRow]
    /\ iterations = {}
    /\ rubric_scores = {}
    /\ review_queue = {}

\* ---- the judge called on its own: one response for an original, one for a
\* ---- rewrite, both evaluated and then compared in either order
NoResponse ==
    [scores |-> Uniform(None), improvement_suggestions |-> <<>>,
     overall_reasoning |-> ""]

NoComparison ==
    [total_improvement |-> 0, improved |-> FALSE, improvements |-> <<>>,
     regressions |-> <<>>, original_total |-> None, rewritten_total |-> None]

JudgeIdle ==
    [pc |-> "idle",
     original_response |-> NoResponse, rewritten_response |-> NoResponse,
     original_score |-> NoEvaluation, rewritten_score |-> NoEvaluation,
     comparison |-> NoComparison, swapped |-> NoComparison]

\* the sub-scores the oracle gives an original, in tenths: the ends of the
\* rubric's range, a value between them whose weighted products fall on
\* half hundredths, and a value outside the range
ScoreValues == {10, 55, 100, 105}

\* how the sub-scores of the rewrite differ from those of the original: the
\* same difference on every criterion (at, inside and outside the threshold
\* of 0.5), or differences of either sign
ScoreDeltas ==
    {Uniform(d) : d \in {-10, -6, -5, 0, 5, 6, 10}}
        \cup {[accuracy |-> 6, clarity |-> -6, completeness |-> 5,
                examples |-> -5, structure |-> 0, discoverability |-> 10]}

\* the oracle's response with these sub-scores
Response(scores) ==
    [scores |-> scores, improvement_suggestions |-> <<>>,
     overall_reasoning |-> ""]

JudgeInit ==
    /\ max_iterations = 0
    /\ improvement_iterations = 0
    /\ InitCalls({}, IssueNumbers)
    /\ oracle = {}
    /\ \E scores \in [CriteriaSet -> ScoreValues], delta \in ScoreDeltas :
           judge = [JudgeIdle EXCEPT
                       !.pc = "evaluate_original",
                       !.original_response = Response(scores),
                       !.rewritten_response =
                           Response([c \in CriteriaSet |-> scores[c] + delta[c]])]

InitRuns(started, numbers, responses) ==
    /\ max_iterations \in 0..MaxRounds
    /\ improvement_iterations \in 0..MaxPatience
    /\ InitCalls(started, numbers)
    /\ judge = JudgeIdle
    /\ oracle = responses

\* one call of analyze_issue, on an issue the table may already hold
Init == InitRuns({"r1"}, IssueNumbers, InRangeResponses)

\* one call of analyze_issue with a model that may also answer with a
\* sub-score outside the range
InitOutOfRange == InitRuns({"r1"}, IssueNumbers, OracleResponses)

\* the settings under which two concurrent calls are explored:
\* <<max_iterations, improvement_iterations>>
TwoRunSettings == {<<1, 0>>, <<1, 1>>}

\* two calls of analyze_issue on the one orchestrator, on different issues,
\* each from a background task with a database session of its own
InitTwo ==
    /\ \E s \in TwoRunSettings :
           max_iterations = s[1] /\ improvement_iterations = s[2]
    /\ InitCalls(Runs, IssueNumbers)
    /\ judge = JudgeIdle
    /\ oracle = InRangeResponses

\* ----------------------------------------------------------- control flow
\* the frame after an exception raised inside the try block: control is in
\* the handler
Except(r, exc) == [loc[r] EXCEPT !.pc = "except", !.e = exc]

\* the frame after an exception raised outside the try block: the caller
\* gets it
Propagate(r, exc) == [loc[r] EXCEPT !.pc = "done", !.result = Raised(exc)]

\* the frame after `return analysis.id`
Return(r) == [loc[r] EXCEPT !.pc = "done", !.result = Returned(r)]

Failed(r, o, exc) == [o EXCEPT !.first_error = exc, !.failed_step = loc[r].pc]

\* FlagsOf with the rows of every analysis
FlagsOfAnyAnalysis(r) == review_queue

FlagsOf(r) == {f \in review_queue : f.analysis_id = r}

IterationsOf(r) == {i \in iterations : i.analysis_id = r}

ScoresOf(r) == {s \in rubric_scores : s.iteration_id[1] = r}

\* ReviewItem with the two scores exchanged
ReviewItemScoresSwapped(r, reason, detailed_reason, original_score, best_score, n) ==
    [analysis_id |-> r, reason |-> reason, detailed_reason |-> detailed_reason,
     original_score |-> best_score, best_achieved_score |-> original_score,
     iterations_attempted |-> n, status |-> "needs_review"]

\* models.ReviewQueue(...) as _flag_for_review builds it
ReviewItem(r, reason, detailed_reason, original_score, best_score, n) ==
    [analysis_id |-> r, reason |-> reason, detailed_reason |-> detailed_reason,
     original_score |-> original_score, best_achieved_score |-> best_score,
     iterations_attempted |-> n, status |-> "needs_review"]

\* review_queue.analysis_id is unique: a second row for an analysis is rejected
FlagAccepted(r) == FlagsOf(r) = {}

\* ------------------------------------------------- decisions of the code
\* IsDocIssue with the early return lost
IsDocIssueAlways(is_doc_issue) == TRUE

\* if not classification['is_doc_issue']
IsDocIssue(is_doc_issue) == is_doc_issue

\* if not doc_results
HasDocs(doc_results) == doc_results # <<>>

\* NoDocsStatus with the status of the escalation path
NoDocsStatusFlagged == "flagged"

\* the status written when no documentation is found
NoDocsStatus == "failed"

\* IsNewBest with >= for >
IsNewBestOrEqual(current_score, best_score) == current_score >= best_score

\* if current_score > best_score
IsNewBest(current_score, best_score) == current_score > best_score

\* if current_score > original_score
BeatsOriginal(current_score, original_score) == current_score > original_score

\* PatienceExhausted with > for >=
PatienceExceeded(since) == since > improvement_iterations

\* if iterations_since_improvement >= self.improvement_iterations
PatienceExhausted(since) == since >= improvement_iterations

\* BudgetExhausted with > for >=
BudgetExceeded(n) == n > max_iterations

\* if iteration_num >= self.max_iterations
BudgetExhausted(n) == n >= max_iterations

\* FinalStatus with >= for >
FinalStatusOrEqual(best_score, original_score) ==
    IF best_score >= original_score THEN "completed" ELSE "flagged"

\* "completed" if best_score > original_score else "flagged"
FinalStatus(best_score, original_score) ==
    IF best_score > original_score THEN "completed" ELSE "flagged"

\* LoopPc with range(1, self.max_iterations + 2)
LoopPcOneMore(n) == IF n <= max_iterations + 1 THEN "rewrite" ELSE "finalize"

\* the next step of `for iteration_num in range(1, self.max_iterations + 1)`
\* once rounds 1..n-1 are over
LoopPc(n) == IF n <= max_iterations THEN "rewrite" ELSE "finalize"

Min(a, b) == IF a <= b THEN a ELSE b

\* NextFeedback with all the suggestions
NextFeedbackAll(evaluation) ==
    IF evaluation.improvement_suggestions # <<>>
    THEN Feedback(evaluation.improvement_suggestions)
    ELSE IF evaluation.overall_reasoning # ""
         THEN Feedback(<<evaluation.overall_reasoning>>)
         ELSE Feedback(<<>>)

\* previous_feedback for the next round
NextFeedback(evaluation) ==
    IF evaluation.improvement_suggestions # <<>>
    THEN Feedback(SubSeq(evaluation.improvement_suggestions, 1,
                         Min(3, Len(evaluation.improvement_suggestions))))
    ELSE IF evaluation.overall_reasoning # ""
         THEN Feedback(<<evaluation.overall_reasoning>>)
         ELSE Feedback(<<>>)

\* ------------------------------------------------------------ the steps
DbTables == <<issues, analyses, iterations, rubric_scores, review_queue>>

\* lines 39-42: github_service.get_issue(issue_number), before the try block
GetIssue(r) ==
    /\ loc[r].pc = "get_issue"
    /\ \E ok \in BOOLEAN :
         IF ok
         THEN /\ loc' = [loc EXCEPT ![r].pc = "query_issue"]
              /\ obs' = obs
         ELSE /\ loc' = [loc EXCEPT ![r] = Propagate(r, "GithubError")]
              /\ obs' = [obs EXCEPT ![r] = Failed(r, @, "GithubError")]
    /\ UNCHANGED <<cfg, judge, DbTables>>

\* _get_or_create_issue, the query: is there a row with this issue number
QueryIssue(r) ==
    /\ loc[r].pc = "query_issue"
    /\ loc' = [loc EXCEPT ![r].pc = "upsert_issue",
                          ![r].issue_found =
                              \E i \in issues : i.issue_number = loc[r].issue_number]
    /\ UNCHANGED <<cfg, judge, obs, DbTables>>

\* _get_or_create_issue, the update or insert and its commit;
\* issues.issue_number is unique
UpsertIssue(r) ==
    /\ loc[r].pc = "upsert_issue"
    /\ \E ok \in BOOLEAN :
         LET n == loc[r].issue_number
             taken == \E i \in issues : i.issue_number = n
             exc == IF ~ok THEN "DBError"
                    ELSE IF ~loc[r].issue_found /\ taken THEN "IntegrityError"
                    ELSE "none"
             new == [id |-> <<"issue", r>>, issue_number |-> n, title |-> "new"]
             rows == IF loc[r].issue_found
                     THEN {IF i.issue_number = n THEN [i EXCEPT !.title = "new"]
                           ELSE i : i \in issues}
                     ELSE issues \cup {new}
             row == CHOOSE i \in rows : i.issue_number = n
         IN  IF exc = "none"
             THEN /\ issues' = rows
                  /\ loc' = [loc EXCEPT ![r].pc = "create_analysis",
                                        ![r].db_issue = row.id]
                  /\ obs' = obs
             ELSE /\ issues' = issues
                  /\ loc' = [loc EXCEPT ![r] = Propagate(r, exc)]
                  /\ obs' = [obs EXCEPT ![r] = Failed(r, @, exc)]
    /\ UNCHANGED <<cfg, judge, analyses, iterations, rubric_scores, review_queue>>

\* lines 45-53: the analysis record is created, still before the try block
CreateAnalysis(r) ==
    /\ loc[r].pc = "create_analysis"
    /\ \E ok \in BOOLEAN :
         IF ok
         THEN /\ analyses' = [analyses EXCEPT ![r] = NewAnalysis(loc[r].db_issue)]
              /\ loc' = [loc EXCEPT ![r].pc = "classify"]
              /\ obs' = obs
         ELSE /\ analyses' = analyses
              /\ loc' = [loc EXCEPT ![r] = Propagate(r, "DBError")]
              /\ obs' = [obs EXCEPT ![r] = Failed(r, @, "DBError")]
    /\ UNCHANGED <<cfg, judge, issues, iterations, rubric_scores, review_queue>>

\* lines 56-59: issue_classifier.classify_issue
Classify(r) ==
    /\ loc[r].pc = "classify"
    /\ \E ok \in BOOLEAN, is_doc_issue \in BOOLEAN :
         IF ok
         THEN /\ loc' = [loc EXCEPT ![r].pc = "commit_classification",
                                    ![r].is_doc_issue = is_doc_issue]
              /\ obs' = [obs EXCEPT ![r].classifier_calls = @ + 1]
         ELSE /\ loc' = [loc EXCEPT ![r] = Except(r, "ClassificationFailed")]
              /\ obs' = [obs EXCEPT ![r] =
                            Failed(r, [@ EXCEPT !.classifier_calls = @ + 1],
                                   "ClassificationFailed")]
    /\ UNCHANGED <<cfg, judge, DbTables>>

\* lines 61-66: the classification is stored; the branch on is_doc_issue
CommitClassification(r) ==
    /\ loc[r].pc = "commit_classification"
    /\ \E ok \in BOOLEAN :
         IF ok
         THEN /\ analyses' = [analyses EXCEPT
                                ![r].is_doc_issue = loc[r].is_doc_issue]
              /\ loc' = [loc EXCEPT ![r].pc =
                            IF IsDocIssue(loc[r].is_doc_issue)
                            THEN "find_docs" ELSE "not_doc_issue"]
              /\ obs' = obs
         ELSE /\ analyses' = analyses
              /\ loc' = [loc EXCEPT ![r] = Except(r, "DBError")]
              /\ obs' = [obs EXCEPT ![r] = Failed(r, @, "DBError")]
    /\ UNCHANGED <<cfg, judge, issues, iterations, rubric_scores, review_queue>>

\* lines 67-70: not a documentation issue: completed, return
NotDocIssue(r) ==
    /\ loc[r].pc = "not_doc_issue"
    /\ \E ok \in BOOLEAN :
         IF ok
         THEN /\ analyses' = [analyses EXCEPT ![r].status = "completed"]
              /\ loc' = [loc EXCEPT ![r] = Return(r)]
              /\ obs' = obs
         ELSE /\ analyses' = analyses
              /\ loc' = [loc EXCEPT ![r] = Except(r, "DBError")]
              /\ obs' = [obs EXCEPT ![r] = Failed(r, @, "DBError")]
    /\ UNCHANGED <<cfg, judge, issues, iterations, rubric_scores, review_queue>>

\* lines 72-77: doc_searcher.find_relevant_docs; the branch on the result
FindDocs(r) ==
    /\ loc[r].pc = "find_docs"
    /\ \E ok \in BOOLEAN, doc_results \in DocResults :
         IF ok
         THEN /\ loc' = [loc EXCEPT ![r].pc =
                            IF HasDocs(doc_results) THEN "use_doc" ELSE "no_docs",
                                    ![r].doc_results = doc_results]
              /\ obs' = [obs EXCEPT ![r].locator_calls = @ + 1]
         ELSE /\ loc' = [loc EXCEPT ![r] = Except(r, "LocatorError")]
              /\ obs' = [obs EXCEPT ![r] =
                            Failed(r, [@ EXCEPT !.locator_calls = @ + 1],
                                   "LocatorError")]
    /\ UNCHANGED <<cfg, judge, DbTables>>

\* lines 78-79: no documentation found: the status is stored
NoDocs(r) ==
    /\ loc[r].pc = "no_docs"
    /\ \E ok \in BOOLEAN :
         IF ok
         THEN /\ analyses' = [analyses EXCEPT ![r].status = NoDocsStatus]
              /\ loc' = [loc EXCEPT ![r].pc = "no_docs_flag"]
              /\ obs' = obs
         ELSE /\ analyses' = analyses
              /\ loc' = [loc EXCEPT ![r] = Except(r, "DBError")]
              /\ obs' = [obs EXCEPT ![r] = Failed(r, @, "DBError")]
    /\ UNCHANGED <<cfg, judge, issues, iterations, rubric_scores, review_queue>>

\* what a call of _flag_for_review ends with: its commit raises, the database
\* rejects the row, or the row is stored
FlagOutcome(r, ok) ==
    IF ~ok THEN "DBError"
    ELSE IF ~FlagAccepted(r) THEN "IntegrityError"
    ELSE "none"

\* what is recorded of a call of _flag_for_review
Flagging(r, o) ==
    [o EXCEPT !.flag_attempts = @ + 1,
              !.flag_rejections = IF FlagAccepted(r) THEN @ ELSE @ + 1]

\* lines 80-86: _flag_for_review(no_docs_found), return
NoDocsFlag(r) ==
    /\ loc[r].pc = "no_docs_flag"
    /\ \E ok \in BOOLEAN :
         LET exc == FlagOutcome(r, ok)
             o == Flagging(r, obs[r])
         IN  IF exc = "none"
             THEN /\ review_queue' = review_queue \cup
                        {ReviewItem(r, "no_docs_found",
                                    <<"Could not find relevant documentation pages">>,
                                    None, None, None)}
                  /\ loc' = [loc EXCEPT ![r] = Return(r)]
                  /\ obs' = [obs EXCEPT ![r] = o]
             ELSE /\ review_queue' = review_queue
                  /\ loc' = [loc EXCEPT ![r] = Except(r, exc)]
                  /\ obs' = [obs EXCEPT ![r] = Failed(r, o, exc)]
    /\ UNCHANGED <<cfg, judge, issues, analyses, iterations, rubric_scores>>

\* lines 88-93: the first result is the document to improve
UseDoc(r) ==
    /\ loc[r].pc = "use_doc"
    /\ \E ok \in BOOLEAN :
         IF ok
         THEN /\ analyses' = [analyses EXCEPT
                                ![r].doc_url = loc[r].doc_results[1].url]
              /\ loc' = [loc EXCEPT ![r].pc = "evaluate_original"]
              /\ obs' = obs
         ELSE /\ analyses' = analyses
              /\ loc' = [loc EXCEPT ![r] = Except(r, "DBError")]
              /\ obs' = [obs EXCEPT ![r] = Failed(r, @, "DBError")]
    /\ UNCHANGED <<cfg, judge, issues, iterations, rubric_scores, review_queue>>

\* judge.evaluate_documentation as the orchestrator calls it: the oracle
\* answers and the answer is evaluated, or the call to the oracle raises and
\* evaluate_documentation wraps that exception
Judged(ok, response, up) ==
    IF ok THEN EvaluateDocumentation(response, up) ELSE EvaluationFailed

\* what is recorded of a call of the judge
JudgeCalled(o, ok, response) ==
    [o EXCEPT !.judge_calls = @ + 1,
              !.missing_sub_score = @ \/ (ok /\ ~WellFormed(response)),
              !.out_of_range_score = @ \/ (ok /\ OutOfRange(response))]

\* lines 95-113: the original is evaluated, the loop state is initialised and
\* the loop is entered, or skipped when it has no round
EvaluateOriginal(r) ==
    /\ loc[r].pc = "evaluate_original"
    /\ \E ok \in BOOLEAN, up \in BOOLEAN,
          response \in oracle :
         LET original_evaluation == Judged(ok, response, up)
             o == [JudgeCalled(obs[r], ok, response) EXCEPT
                      !.original_judge_calls = @ + 1,
                      !.baselines = IF original_evaluation.raised THEN @
                                    ELSE Append(@, original_evaluation)]
         IN  IF ~original_evaluation.raised
             THEN /\ loc' = [loc EXCEPT
                        ![r].original_evaluation = original_evaluation,
                        ![r].original_score = original_evaluation.total_score,
                        ![r].best_iteration = None,
                        ![r].best_score = original_evaluation.total_score,
                        ![r].iterations_since_improvement = 0,
                        ![r].previous_feedback = NoFeedback,
                        ![r].iteration_num =
                            IF LoopPc(1) = "rewrite" THEN 1 ELSE @,
                        ![r].pc = LoopPc(1)]
                  /\ obs' = [obs EXCEPT ![r] = o]
             ELSE /\ loc' = [loc EXCEPT ![r] = Except(r, "EvaluationFailed")]
                  /\ obs' = [obs EXCEPT ![r] = Failed(r, o, "EvaluationFailed")]
    /\ UNCHANGED <<cfg, judge, DbTables>>

\* what is recorded of a call of the rewriter: the arguments of
\* rewrite_documentation
RewriterCalled(r, o) ==
    [o EXCEPT !.rewriter_calls = @ + 1,
              !.rewriter_inputs =
                  Append(@, [original_doc |-> loc[r].doc_results[1].content,
                             previous_feedback |-> loc[r].previous_feedback,
                             iteration_number |-> loc[r].iteration_num])]

\* lines 115-121: doc_rewriter.rewrite_documentation
Rewrite(r) ==
    /\ loc[r].pc = "rewrite"
    /\ \E ok \in BOOLEAN :
         IF ok
         THEN /\ loc' = [loc EXCEPT
                     ![r].rewrite_result = <<"content", loc[r].iteration_num>>,
                     ![r].pc = "persist_iteration"]
              /\ obs' = [obs EXCEPT ![r] = RewriterCalled(r, @)]
         ELSE /\ loc' = [loc EXCEPT ![r] = Except(r, "RewriteFailed")]
              /\ obs' = [obs EXCEPT ![r] =
                            Failed(r, RewriterCalled(r, @), "RewriteFailed")]
    /\ UNCHANGED <<cfg, judge, DbTables>>

\* RewriteIteration numbered from 0
RewriteIterationFromZero(r, f) ==
    [id |-> <<r, f.iteration_num>>,
     analysis_id |-> r,
     iteration_number |-> f.iteration_num - 1,
     rewritten_content |-> f.rewrite_result]

\* lines 124-130: models.RewriteIteration(...) of the round
RewriteIteration(r, f) ==
    [id |-> <<r, f.iteration_num>>,
     analysis_id |-> r,
     iteration_number |-> f.iteration_num,
     rewritten_content |-> f.rewrite_result]

\* lines 123-133: the iteration record is stored
PersistIteration(r) ==
    /\ loc[r].pc = "persist_iteration"
    /\ \E ok \in BOOLEAN :
         IF ok
         THEN /\ iterations' = iterations \cup {RewriteIteration(r, loc[r])}
              /\ loc' = [loc EXCEPT ![r].pc = "evaluate_rewrite"]
              /\ obs' = obs
         ELSE /\ iterations' = iterations
              /\ loc' = [loc EXCEPT ![r] = Except(r, "DBError")]
              /\ obs' = [obs EXCEPT ![r] = Failed(r, @, "DBError")]
    /\ UNCHANGED <<cfg, judge, issues, analyses, rubric_scores, review_queue>>

\* lines 135-141: the rewrite is evaluated
EvaluateRewrite(r) ==
    /\ loc[r].pc = "evaluate_rewrite"
    /\ \E ok \in BOOLEAN, up \in BOOLEAN,
          response \in oracle :
         LET evaluation == Judged(ok, response, up)
             o == JudgeCalled(obs[r], ok, response)
         IN  IF ~evaluation.raised
             THEN /\ loc' = [loc EXCEPT ![r].evaluation = evaluation,
                                        ![r].pc = "persist_score"]
                  /\ obs' = [obs EXCEPT ![r] =
                                [o EXCEPT !.evaluations = Append(@, evaluation)]]
             ELSE /\ loc' = [loc EXCEPT ![r] = Except(r, "EvaluationFailed")]
                  /\ obs' = [obs EXCEPT ![r] = Failed(r, o, "EvaluationFailed")]
    /\ UNCHANGED <<cfg, judge, DbTables>>

\* lines 143-163: the rubric score record, with the comparison against the
\* original, is stored
PersistScore(r) ==
    /\ loc[r].pc = "persist_score"
    /\ \E ok \in BOOLEAN :
         IF ok
         THEN LET comparison ==
                      CompareScores(loc[r].original_evaluation, loc[r].evaluation)
              IN  /\ rubric_scores' = rubric_scores \cup
                        {[iteration_id |-> <<r, loc[r].iteration_num>>,
                          scores |-> loc[r].evaluation.scores,
                          total_score |-> loc[r].evaluation.total_score,
                          improvement_areas |-> comparison.improvements,
                          regression_areas |-> comparison.regressions]}
                  /\ loc' = [loc EXCEPT ![r].pc = "track_best"]
                  /\ obs' = obs
         ELSE /\ rubric_scores' = rubric_scores
              /\ loc' = [loc EXCEPT ![r] = Except(r, "DBError")]
              /\ obs' = [obs EXCEPT ![r] = Failed(r, @, "DBError")]
    /\ UNCHANGED <<cfg, judge, issues, analyses, iterations, review_queue>>

\* Tracked with the original's score moved up to each new best
TrackedRebasing(f) ==
    LET current_score == f.evaluation.total_score
    IN  IF IsNewBest(current_score, f.best_score)
        THEN [f EXCEPT !.current_score = current_score,
                       !.best_score = current_score,
                       !.original_score = current_score,
                       !.best_iteration = f.iteration_num,
                       !.iterations_since_improvement = 0]
        ELSE [f EXCEPT !.current_score = current_score,
                       !.iterations_since_improvement = @ + 1]

\* lines 165-176: the frame after the best iteration is tracked
Tracked(f) ==
    LET current_score == f.evaluation.total_score
    IN  IF IsNewBest(current_score, f.best_score)
        THEN [f EXCEPT !.current_score = current_score,
                       !.best_score = current_score,
                       !.best_iteration = f.iteration_num,
                       !.iterations_since_improvement = 0]
        ELSE [f EXCEPT !.current_score = current_score,
                       !.iterations_since_improvement = @ + 1]

\* lines 165-181: best tracking, and the analysis is updated
TrackBest(r) ==
    /\ loc[r].pc = "track_best"
    /\ \E ok \in BOOLEAN :
         LET f == Tracked(loc[r])
             o == [obs[r] EXCEPT !.totals = Append(@, f.current_score)]
         IN  IF ok
             THEN /\ analyses' = [analyses EXCEPT
                        ![r].total_iterations = f.iteration_num,
                        ![r].best_iteration_number = f.best_iteration]
                  /\ loc' = [loc EXCEPT ![r] = [f EXCEPT !.pc = "check_stop"]]
                  /\ obs' = [obs EXCEPT ![r] = o]
             ELSE /\ analyses' = analyses
                  /\ loc' = [loc EXCEPT ![r] =
                                [f EXCEPT !.pc = "except", !.e = "DBError"]]
                  /\ obs' = [obs EXCEPT ![r] = Failed(r, o, "DBError")]
    /\ UNCHANGED <<cfg, judge, issues, iterations, rubric_scores, review_queue>>

\* lines 183-202: what the stopping conditions decide after a round
StopDecision(f) ==
    IF BeatsOriginal(f.current_score, f.original_score)
    THEN IF PatienceExhausted(f.iterations_since_improvement)
         THEN "break" ELSE "continue"
    ELSE IF BudgetExhausted(f.iteration_num)
         THEN "flag_and_break" ELSE "continue"

\* lines 183-208 and the loop header: the stopping conditions, the flag for
\* review, the feedback for the next round
CheckStop(r) ==
    /\ loc[r].pc = "check_stop"
    /\ \E ok \in BOOLEAN :
         LET f == loc[r]
             decision == StopDecision(f)
             exc == IF decision = "flag_and_break" THEN FlagOutcome(r, ok)
                    ELSE "none"
             o == IF decision = "flag_and_break"
                  THEN Flagging(r, obs[r]) ELSE obs[r]
         IN  /\ review_queue' =
                    IF decision = "flag_and_break" /\ exc = "none"
                    THEN review_queue \cup
                           {ReviewItem(r, "failed_to_improve",
                                       <<"Could not improve documentation after",
                                         max_iterations, "iterations">>,
                                       f.original_score, f.best_score,
                                       f.iteration_num)}
                    ELSE review_queue
             /\ loc' = [loc EXCEPT ![r] =
                    IF exc # "none" THEN Except(r, exc)
                    ELSE IF decision = "continue"
                    THEN [f EXCEPT
                            !.previous_feedback = NextFeedback(f.evaluation),
                            !.iteration_num =
                                IF LoopPc(@ + 1) = "rewrite" THEN @ + 1 ELSE @,
                            !.pc = LoopPc(f.iteration_num + 1)]
                    ELSE [f EXCEPT !.pc = "finalize"]]
             /\ obs' = [obs EXCEPT ![r] =
                    IF exc # "none" THEN Failed(r, o, exc) ELSE o]
    /\ UNCHANGED <<cfg, judge, issues, analyses, iterations, rubric_scores>>

\* lines 210-221: the final status and the completion time are stored, return
Finalize(r) ==
    /\ loc[r].pc = "finalize"
    /\ \E ok \in BOOLEAN :
         IF ok
         THEN /\ analyses' = [analyses EXCEPT
                    ![r].status = FinalStatus(loc[r].best_score,
                                              loc[r].original_score),
                    ![r].completed_at = TRUE]
              /\ loc' = [loc EXCEPT ![r] = Return(r)]
              /\ obs' = obs
         ELSE /\ analyses' = analyses
              /\ loc' = [loc EXCEPT ![r] = Except(r, "DBError")]
              /\ obs' = [obs EXCEPT ![r] = Failed(r, @, "DBError")]
    /\ UNCHANGED <<cfg, judge, issues, iterations, rubric_scores, review_queue>>

\* what leaves the handler: e re-raised, or the exception of its own
\* _flag_for_review
HandlerRaises(r) ==
    IF FlagAccepted(r) THEN loc[r].e ELSE "IntegrityError"

\* lines 223-238: the exception handler
HandleException(r) ==
    /\ loc[r].pc = "except"
    /\ analyses' = [analyses EXCEPT ![r].status = "failed"]
    /\ review_queue' =
          IF FlagAccepted(r)
          THEN review_queue \cup
                 {ReviewItem(r, "processing_error",
                             <<"Error during analysis: ", loc[r].e>>,
                             None, None, None)}
          ELSE review_queue
    /\ loc' = [loc EXCEPT ![r].pc = "done",
                          ![r].result = Raised(HandlerRaises(r))]
    /\ obs' = [obs EXCEPT ![r] = Flagging(r, @)]
    /\ UNCHANGED <<cfg, judge, issues, iterations, rubric_scores>>

Step(r) ==
    \/ GetIssue(r)
    \/ QueryIssue(r)
    \/ UpsertIssue(r)
    \/ CreateAnalysis(r)
    \/ Classify(r)
    \/ CommitClassification(r)
    \/ NotDocIssue(r)
    \/ FindDocs(r)
    \/ NoDocs(r)
    \/ NoDocsFlag(r)
    \/ UseDoc(r)
    \/ EvaluateOriginal(r)
    \/ Rewrite(r)
    \/ PersistIteration(r)
    \/ EvaluateRewrite(r)
    \/ PersistScore(r)
    \/ TrackBest(r)
    \/ CheckStop(r)
    \/ Finalize(r)
    \/ HandleException(r)

Next == \E r \in Runs : Step(r)

Spec == Init /\ [][Next]_vars

\* one call, the model free to answer out of range
SpecOutOfRange == InitOutOfRange /\ [][Next]_vars

\* the steps of the two calls interleave in any order
SpecTwo == InitTwo /\ [][Next]_vars

\* the issue number both calls are given when they are started for one issue
SameIssueNumber == [r \in Runs |-> 101]

\* the settings under which two calls on one issue are explored:
\* <<max_iterations, improvement_iterations>>
SameIssueSettings == {<<1, 0>>}

\* two calls of analyze_issue on the same issue, each from a background task
\* with a database session of its own
InitSameIssue ==
    /\ \E s \in SameIssueSettings :
           max_iterations = s[1] /\ improvement_iterations = s[2]
    /\ InitCalls(Runs, SameIssueNumber)
    /\ judge = JudgeIdle
    /\ oracle = InRangeResponses

SpecSameIssue == InitSameIssue /\ [][Next]_vars

\* every call that has been entered is carried on: each collaborator call and
\* each commit returns or raises, and the call takes its next step
FairSpec == Spec /\ \A r \in Runs : WF_vars(Step(r))

\* ------------------------------------------------- the judge on its own
\* judge.evaluate_documentation on the original
JudgeEvaluateOriginal ==
    /\ judge.pc = "evaluate_original"
    /\ \E up \in BOOLEAN :
         judge' = [judge EXCEPT
                      !.original_score =
                          EvaluateDocumentation(judge.original_response, up),
                      !.pc = "evaluate_rewritten"]
    /\ UNCHANGED <<cfg, loc, obs, DbTables>>

\* judge.evaluate_documentation on the rewrite
JudgeEvaluateRewritten ==
    /\ judge.pc = "evaluate_rewritten"
    /\ \E up \in BOOLEAN :
         judge' = [judge EXCEPT
                      !.rewritten_score =
                          EvaluateDocumentation(judge.rewritten_response, up),
                      !.pc = "compare"]
    /\ UNCHANGED <<cfg, loc, obs, DbTables>>

\* judge.compare_scores(original_score, rewritten_score)
JudgeCompare ==
    /\ judge.pc = "compare"
    /\ judge' = [judge EXCEPT
                    !.comparison =
                        CompareScores(judge.original_score, judge.rewritten_score),
                    !.pc = "compare_swapped"]
    /\ UNCHANGED <<cfg, loc, obs, DbTables>>

\* judge.compare_scores with the two evaluations in the other order
JudgeCompareSwapped ==
    /\ judge.pc = "compare_swapped"
    /\ judge' = [judge EXCEPT
                    !.swapped =
                        CompareScores(judge.rewritten_score, judge.original_score),
                    !.pc = "done"]
    /\ UNCHANGED <<cfg, loc, obs, DbTables>>

JudgeNext ==
    \/ JudgeEvaluateOriginal
    \/ JudgeEvaluateRewritten
    \/ JudgeCompare
    \/ JudgeCompareSwapped

JudgeSpec == JudgeInit /\ [][JudgeNext]_vars

\* ----------------------------------------------------------- properties
Done(r) == loc[r].pc = "done"

NoError(r) == obs[r].first_error = "none"

Started(r) == analyses[r].exists

\* the classifier answered, and said the issue is not a documentation issue
NotApplicable(r) ==
    /\ obs[r].classifier_calls > 0
    /\ obs[r].failed_step # "classify"
    /\ ~loc[r].is_doc_issue

\* the locator answered with an empty list
NoDocFound(r) ==
    /\ obs[r].locator_calls > 0
    /\ obs[r].failed_step # "find_docs"
    /\ loc[r].doc_results = <<>>

\* the original has been scored: the run is at or past the loop
ReachedLoop(r) == loc[r].original_score # None

Totals(r) == obs[r].totals

RoundsOf(r) == 1..Len(Totals(r))

SomeRoundBeatOriginal(r) ==
    \E k \in RoundsOf(r) : Totals(r)[k] > loc[r].original_score

\* the earliest of the rounds 1..n whose total is the greatest of theirs
EarliestBest(r, n) ==
    CHOOSE k \in 1..n :
        /\ \A j \in 1..n : Totals(r)[j] <= Totals(r)[k]
        /\ \A j \in 1..(k - 1) : Totals(r)[j] < Totals(r)[k]

ExactlyOneFlag(r, reason) ==
    /\ Cardinality(FlagsOf(r)) = 1
    /\ \A f \in FlagsOf(r) : f.reason = reason

\* C1: once a run has terminated, it has a ReviewFlag if and only if the
\* locator found no document, or no round scored above the original, or an
\* error was raised (max_iterations >= 1).
C1_FlagIffNoImprovement ==
    \A r \in Runs :
        (Done(r) /\ Started(r) /\ max_iterations >= 1) =>
            (FlagsOf(r) # {} <=>
                \/ NoDocFound(r)
                \/ ReachedLoop(r) /\ ~SomeRoundBeatOriginal(r)
                \/ ~NoError(r))

\* C2, as stated: after N >= 1 completed rounds best_iteration_number is the
\* earliest round of 1..N whose total is the greatest of rounds 1..N.
C2_BestIsEarliestMax ==
    \A r \in Runs :
        LET n == analyses[r].total_iterations
        IN  n >= 1 => analyses[r].best_iteration_number = EarliestBest(r, n)

\* C2, amended: after N >= 1 completed rounds best_iteration_number is the
\* earliest round of 1..N whose total is the greatest of rounds 1..N when that
\* total is above the original's total, and is unset otherwise.
C2_BestIsEarliestMaxAboveOriginal ==
    \A r \in Runs :
        LET n == analyses[r].total_iterations
            k == EarliestBest(r, n)
        IN  n >= 1 =>
                analyses[r].best_iteration_number =
                    IF Totals(r)[k] > loc[r].original_score THEN k ELSE None

\* two completed rounds tie above the original: the first one is the best
C2_Witness ==
    \E r \in Runs :
        /\ analyses[r].total_iterations = 2
        /\ Totals(r)[1] = Totals(r)[2]
        /\ Totals(r)[1] > loc[r].original_score
        /\ analyses[r].best_iteration_number = 1

\* C3: when no round scores above the original and nothing fails
\* (max_iterations >= 1), the run executes exactly max_iterations rounds,
\* has exactly one ReviewFlag, failed_to_improve, returns without raising
\* with status flagged, and no stored score is above the original's.
C3_ExhaustedBudgetEscalates ==
    \A r \in Runs :
        (/\ Done(r) /\ ReachedLoop(r) /\ NoError(r)
         /\ max_iterations >= 1
         /\ ~SomeRoundBeatOriginal(r)) =>
            /\ obs[r].rewriter_calls = max_iterations
            /\ Len(Totals(r)) = max_iterations
            /\ Cardinality(IterationsOf(r)) = max_iterations
            /\ ExactlyOneFlag(r, "failed_to_improve")
            /\ loc[r].result = Returned(r)
            /\ analyses[r].status = "flagged"
            /\ \A s \in ScoresOf(r) : s.total_score <= loc[r].original_score

\* two rounds, neither above the original, and the run is over
C3_Witness ==
    \E r \in Runs :
        /\ Done(r) /\ NoError(r)
        /\ max_iterations = 2
        /\ Len(Totals(r)) = 2
        /\ ~SomeRoundBeatOriginal(r)
        /\ Totals(r)[1] < loc[r].original_score
        /\ Totals(r)[2] = loc[r].original_score

\* C4: when round 1 beats the original, improvement_iterations is 1 and
\* round 2 does not exceed round 1, no third round is started
\* (max_iterations >= 2).
C4_StopsAfterTwoRounds ==
    \A r \in Runs :
        (/\ improvement_iterations = 1
         /\ max_iterations >= 2
         /\ Len(Totals(r)) >= 2
         /\ Totals(r)[1] > loc[r].original_score
         /\ Totals(r)[2] <= Totals(r)[1]) =>
            /\ obs[r].rewriter_calls <= 2
            /\ loc[r].iteration_num <= 2

\* C5: a run that leaves the loop and returns has status completed when some
\* round scored above the original and flagged otherwise, and completed_at
\* is set by the very step that sets this status.
C5_FinalStatus ==
    \A r \in Runs :
        /\ (Done(r) /\ ReachedLoop(r) /\ loc[r].result.kind = "returned") =>
               analyses[r].status =
                   IF SomeRoundBeatOriginal(r) THEN "completed" ELSE "flagged"
        /\ analyses[r].completed_at <=>
               (ReachedLoop(r) /\ analyses[r].status \in {"completed", "flagged"})

\* the best round only equals the original: flagged
C5_Witness ==
    \E r \in Runs :
        /\ Done(r) /\ loc[r].result.kind = "returned"
        /\ \E k \in RoundsOf(r) : Totals(r)[k] = loc[r].original_score
        /\ ~SomeRoundBeatOriginal(r)
        /\ analyses[r].status = "flagged"
        /\ analyses[r].completed_at

\* C6, for the steps that run once the analysis record exists: when such a
\* step of analyze_issue raises, the run ends failed, with a ReviewFlag
\* processing_error that carries the error, and the caller gets that error.
C6_ErrorFailsRunAndFlags ==
    \A r \in Runs :
        (Done(r) /\ Started(r) /\ ~NoError(r)) =>
            /\ analyses[r].status = "failed"
            /\ \E f \in FlagsOf(r) :
                   /\ f.reason = "processing_error"
                   /\ f.detailed_reason =
                          <<"Error during analysis: ", obs[r].first_error>>
            /\ loc[r].result = Raised(obs[r].first_error)

\* C7: when the locator returns an empty list the judge and the rewriter are
\* never called and no iteration or score is stored; the run, when no step
\* of it raises, ends with status failed and exactly one ReviewFlag,
\* no_docs_found, and returns the analysis id.
C7_NoDocsFound ==
    \A r \in Runs :
        NoDocFound(r) =>
            /\ obs[r].judge_calls = 0
            /\ obs[r].rewriter_calls = 0
            /\ IterationsOf(r) = {}
            /\ ScoresOf(r) = {}
            /\ (Done(r) /\ NoError(r)) =>
                   /\ analyses[r].status = "failed"
                   /\ ExactlyOneFlag(r, "no_docs_found")
                   /\ loc[r].result = Returned(r)

C7_Witness ==
    \E r \in Runs :
        /\ Done(r) /\ NoDocFound(r) /\ NoError(r)
        /\ ExactlyOneFlag(r, "no_docs_found")

\* C8: when the classifier says the issue is not a documentation issue, the
\* locator, the judge and the rewriter are never called, nothing is stored
\* but the classification and the status, doc_url, best_iteration_number and
\* total_iterations keep their initial values, and the run, when no step of
\* it raises, has no ReviewFlag and ends completed, returning the analysis id
\* right after the status is stored.
C8_NotApplicableSkips ==
    \A r \in Runs :
        NotApplicable(r) =>
            /\ obs[r].locator_calls = 0
            /\ obs[r].judge_calls = 0
            /\ obs[r].rewriter_calls = 0
            /\ IterationsOf(r) = {}
            /\ ScoresOf(r) = {}
            /\ analyses[r].doc_url = NewAnalysis(loc[r].db_issue).doc_url
            /\ analyses[r].best_iteration_number = None
            /\ analyses[r].total_iterations = 0
            /\ NoError(r) =>
                   /\ FlagsOf(r) = {}
                   /\ obs[r].flag_attempts = 0
                   /\ loc[r].pc \in {"commit_classification", "not_doc_issue", "done"}
                   /\ Done(r) <=> analyses[r].status = "completed"
                   /\ Done(r) => loc[r].result = Returned(r)

C8_Witness ==
    \E r \in Runs :
        /\ Done(r) /\ NotApplicable(r) /\ NoError(r)
        /\ analyses[r].status = "completed"
        /\ ~analyses[r].is_doc_issue

\* C9: with max_iterations = 0 a run on a located document ends flagged,
\* with no iteration and with a ReviewFlag failed_to_improve that records
\* the original score.
C9_ZeroRoundsEscalates ==
    \A r \in Runs :
        (Done(r) /\ NoError(r) /\ ReachedLoop(r) /\ max_iterations = 0) =>
            /\ analyses[r].status = "flagged"
            /\ IterationsOf(r) = {}
            /\ \E f \in FlagsOf(r) :
                   /\ f.reason = "failed_to_improve"
                   /\ f.original_score = loc[r].original_score

\* C10: an analysis has at most one ReviewFlag, and _flag_for_review is never
\* called for an analysis that already has one.
C10_AtMostOneFlagAttempt ==
    \A r \in Runs :
        /\ Cardinality(FlagsOf(r)) <= 1
        /\ obs[r].flag_rejections = 0

\* a run that created its analysis has returned or raised
Terminated(r) == Done(r) /\ Started(r)

TerminalStatuses == {"completed", "flagged", "failed"}

\* C11: once a run has terminated, the total_iterations of its analysis is
\* the number of its rewrite_iterations rows, also when the run was aborted
\* in the middle of a round.
C11_TotalIterationsCountsRows ==
    \A r \in Runs :
        (Terminated(r) /\ analyses[r].status \in TerminalStatuses) =>
            analyses[r].total_iterations = Cardinality(IterationsOf(r))

\* the score rows of one iteration
ScoresOfIteration(i) == {s \in rubric_scores : s.iteration_id = i.id}

\* C12: once a run has terminated, each of its rewrite_iterations rows has
\* exactly one rubric_scores row, also when the judge failed on the rewrite
\* of the current round.
C12_EveryIterationScored ==
    \A r \in Runs :
        (Terminated(r) /\ analyses[r].status \in TerminalStatuses) =>
            \A i \in IterationsOf(r) : Cardinality(ScoresOfIteration(i)) = 1

\* C13: a status completed, flagged or failed is never changed to another
\* value by a later step of analyze_issue, the exception handler included.
C13_TerminalStatusIsStable ==
    [][\A r \in Runs :
           analyses[r].status \in TerminalStatuses =>
               analyses'[r].status = analyses[r].status]_vars

\* the handler ran on an analysis that was already failed: the review item of
\* the no-document return could not be written
C13_Witness ==
    \E r \in Runs :
        /\ Done(r)
        /\ obs[r].failed_step = "no_docs_flag"
        /\ loc[r].result = Raised(obs[r].first_error)
        /\ analyses[r].status = "failed"

\* the loop of a run that raised nothing was left by the patience break
\* (lines 185-188)
StoppedOnPatience(r) ==
    /\ loc[r].current_score > loc[r].original_score
    /\ loc[r].iterations_since_improvement >= improvement_iterations

\* the loop of a run that raised nothing was left with all its rounds used
RoundsUsedUp(r) == loc[r].iteration_num = max_iterations

RECURSIVE LoopAfter(_, _, _)
\* the best round, the best score and the rounds since the last improvement
\* once rounds 1..j are tracked
LoopAfter(original, totals, j) ==
    IF j = 0
    THEN [best_iteration |-> None, best_score |-> original, since |-> 0]
    ELSE LET p == LoopAfter(original, totals, j - 1)
         IN  IF totals[j] > p.best_score
             THEN [best_iteration |-> j, best_score |-> totals[j], since |-> 0]
             ELSE [p EXCEPT !.since = @ + 1]

\* what the stopping rule says after round j
DecisionAfter(original, totals, j) ==
    IF totals[j] > original
    THEN IF LoopAfter(original, totals, j).since >= improvement_iterations
         THEN "break" ELSE "continue"
    ELSE IF j >= max_iterations THEN "flag_and_break" ELSE "continue"

\* the rounds of call r that were scored and tracked
TrackedRounds(r) == Len(Totals(r))

\* the loop of call r stored its failed_to_improve review item
FlaggedInLoop(r) ==
    /\ TrackedRounds(r) >= 1
    /\ obs[r].failed_step \in {"none", "finalize"}
    /\ DecisionAfter(loc[r].original_score, Totals(r), TrackedRounds(r))
           = "flag_and_break"

\* the rows and the result a terminated call has when it ran alone
AloneOutcome(r) ==
    LET fs == obs[r].failed_step
        k == TrackedRounds(r)
        original == loc[r].original_score
        committed == IF fs = "track_best" THEN k - 1 ELSE k
        persisted == IF fs \in {"evaluate_rewrite", "persist_score"}
                     THEN k + 1 ELSE k
        twice == fs = "finalize" /\ FlaggedInLoop(r)
    IN  [status |->
             IF fs # "none" THEN "failed"
             ELSE IF ~loc[r].is_doc_issue THEN "completed"
             ELSE IF loc[r].doc_results = <<>> THEN "failed"
             ELSE IF LoopAfter(original, Totals(r), k).best_score > original
             THEN "completed" ELSE "flagged",
         total_iterations |-> committed,
         best_iteration_number |->
             LoopAfter(original, Totals(r), committed).best_iteration,
         iterations |-> 1..persisted,
         scores |-> {<<n, Totals(r)[n]>> : n \in 1..k},
         flags |->
             IF fs = "none"
             THEN IF ~loc[r].is_doc_issue THEN {}
                  ELSE IF loc[r].doc_results = <<>> THEN {"no_docs_found"}
                  ELSE IF FlaggedInLoop(r) THEN {"failed_to_improve"}
                  ELSE {}
             ELSE IF twice THEN {"failed_to_improve"}
             ELSE {"processing_error"},
         result |->
             IF fs = "none" THEN Returned(r)
             ELSE IF twice THEN Raised("IntegrityError")
             ELSE Raised(obs[r].first_error)]

\* the rows and the result call r has
Outcome(r) ==
    [status |-> analyses[r].status,
     total_iterations |-> analyses[r].total_iterations,
     best_iteration_number |-> analyses[r].best_iteration_number,
     iterations |-> {i.iteration_number : i \in IterationsOf(r)},
     scores |-> {<<s.iteration_id[2], s.total_score>> : s \in ScoresOf(r)},
     flags |-> {f.reason : f \in FlagsOf(r)},
     result |-> loc[r].result]

\* call r made the rounds a call alone makes on its totals: a next round only
\* after the rule said continue, the last round only when the rule said stop
\* or the rounds were used up
RoundsAsAlone(r) ==
    LET fs == obs[r].failed_step
        k == TrackedRounds(r)
        started == IF fs \in {"rewrite", "persist_iteration",
                              "evaluate_rewrite", "persist_score"}
                   THEN k + 1 ELSE k
    IN  /\ obs[r].rewriter_calls = started
        /\ \A j \in 1..(started - 1) :
               /\ j < max_iterations
               /\ DecisionAfter(loc[r].original_score, Totals(r), j) = "continue"
        /\ (fs \in {"none", "finalize"} /\ ReachedLoop(r)) =>
               \/ k = max_iterations
               \/ DecisionAfter(loc[r].original_score, Totals(r), k) # "continue"

\* the rows call r owns: its analysis, its iterations, scores and review
\* items, and the issue it was given
OwnRows(r) ==
    <<analyses[r], IterationsOf(r), ScoresOf(r), FlagsOf(r),
      {i \in issues : i.issue_number = loc[r].issue_number}>>

\* a step is taken by one call, it writes the rows of that call only, and it
\* leaves the settings of the orchestrator alone
StepOfOneCall ==
    /\ cfg' = cfg
    /\ \A r, q \in Runs :
           (loc'[r] # loc[r] /\ loc'[q] # loc[q]) => r = q
    /\ \A r \in Runs :
           loc'[r] = loc[r] => (obs'[r] = obs[r] /\ OwnRows(r)' = OwnRows(r))

\* C15: when two calls on different issues interleave, each call that has
\* terminated has the status, iterations, scores, best_iteration_number,
\* total_iterations and review item of a call that ran alone on what it was
\* given, and no step writes a row of the other call.
C15_RunsAreIndependent ==
    /\ [](\A r \in Runs :
            Terminated(r) => (Outcome(r) = AloneOutcome(r) /\ RoundsAsAlone(r)))
    /\ [][StepOfOneCall]_vars

\* both calls terminated after a round each, one completed, the other
\* flagged for review
C15_Witness ==
    /\ \A r \in Runs : Terminated(r) /\ obs[r].rewriter_calls >= 1
    /\ \E r, q \in Runs :
           /\ analyses[r].status = "completed" /\ FlagsOf(r) = {}
           /\ analyses[q].status = "flagged"
           /\ \E f \in FlagsOf(q) : f.reason = "failed_to_improve"

\* the evaluations the judge has made, each with the response it was made of
Evaluated ==
    (IF judge.pc \in {"evaluate_rewritten", "compare", "compare_swapped", "done"}
     THEN {<<judge.original_response, judge.original_score>>} ELSE {})
    \cup
    (IF judge.pc \in {"compare", "compare_swapped", "done"}
     THEN {<<judge.rewritten_response, judge.rewritten_score>>} ELSE {})

InRange(scores) == \A c \in CriteriaSet : scores[c] \in 10..100

\* C16: when the six sub-scores are in [1,10], the weighted total is in
\* [1,10].
C16_TotalInRange ==
    \A e \in Evaluated :
        InRange(e[1].scores) => e[2].total_score \in 100..1000

\* the upper end of the range is met: all sub-scores 10.0 give 10.00 (and
\* all sub-scores 9.0 give 9.00)
C16_Witness ==
    /\ judge.pc = "compare"
    /\ judge.original_response.scores = Uniform(100)
    /\ judge.original_score.total_score = 1000
    /\ judge.rewritten_response.scores = Uniform(90)
    /\ judge.rewritten_score.total_score = 900

\* 0.30*accuracy + 0.20*clarity + 0.20*completeness + 0.15*examples
\* + 0.10*structure + 0.05*discoverability, in thousandths
StatedSum(s) ==
    30 * s.accuracy + 20 * s.clarity + 20 * s.completeness
        + 15 * s.examples + 10 * s.structure + 5 * s.discoverability

\* C17: the total is the stated weighted sum rounded to two decimals (a
\* nearest hundredth), the weights are the stated ones and sum to 1, and the
\* sub-scores of the evaluation are those of the oracle, in or out of range.
C17_TotalIsWeightedSum ==
    /\ WEIGHTS = [accuracy |-> 30, clarity |-> 20, completeness |-> 20,
                  examples |-> 15, structure |-> 10, discoverability |-> 5]
    /\ WeightedSum(Uniform(1), Len(Criteria)) = 100
    /\ \A e \in Evaluated :
           /\ e[2].scores = e[1].scores
           /\ 10 * e[2].total_score - StatedSum(e[1].scores) \in -5..5

\* an evaluation of sub-scores outside the range whose sum falls on a half
\* hundredth
C17_Witness ==
    \E e \in Evaluated :
        /\ \E c \in CriteriaSet : e[1].scores[c] = 105
        /\ StatedSum(e[1].scores) % 10 = 5
        /\ e[2].scores = e[1].scores

Listed(c, list) == \E i \in 1..Len(list) : list[i] = c

Compared == judge.pc \in {"compare_swapped", "done"}

DiffOf(c) == judge.rewritten_score.scores[c] - judge.original_score.scores[c]

\* C18: compare_scores lists a criterion as an improvement iff its
\* difference is above 0.5, as a regression iff it is below -0.5, never as
\* both, and says improved iff the total of the rewrite is above that of the
\* original.
C18_StrictThresholds ==
    Compared =>
        /\ \A c \in CriteriaSet :
               /\ Listed(c, judge.comparison.improvements) <=> DiffOf(c) > 5
               /\ Listed(c, judge.comparison.regressions) <=> DiffOf(c) < -5
               /\ ~(Listed(c, judge.comparison.improvements)
                      /\ Listed(c, judge.comparison.regressions))
        /\ judge.comparison.improved <=>
               judge.rewritten_score.total_score
                   - judge.original_score.total_score > 0

\* a comparison with differences of exactly +0.5 and -0.5, in neither list,
\* next to an improvement and a regression
C18_Witness ==
    /\ Compared
    /\ DiffOf("completeness") = 5 /\ DiffOf("examples") = -5
    /\ ~Listed("completeness", judge.comparison.improvements)
    /\ ~Listed("examples", judge.comparison.regressions)
    /\ Listed("accuracy", judge.comparison.improvements)
    /\ Listed("clarity", judge.comparison.regressions)

Members(list) == {list[i] : i \in 1..Len(list)}

\* C19: comparing in the other order turns the improvements into the
\* regressions and the regressions into the improvements; a criterion in
\* neither list is in neither list of the other order.
C19_Antisymmetric ==
    judge.pc = "done" =>
        /\ Members(judge.comparison.improvements)
               = Members(judge.swapped.regressions)
        /\ Members(judge.comparison.regressions)
               = Members(judge.swapped.improvements)
        /\ \A c \in CriteriaSet :
               (~Listed(c, judge.comparison.improvements)
                  /\ ~Listed(c, judge.comparison.regressions))
               <=> (~Listed(c, judge.swapped.improvements)
                      /\ ~Listed(c, judge.swapped.regressions))

\* both orders compared, with an improvement, a regression and a criterion
\* at exactly 0.5
C19_Witness ==
    /\ judge.pc = "done"
    /\ judge.comparison.improvements # <<>>
    /\ judge.comparison.regressions # <<>>
    /\ judge.swapped.improvements # <<>>
    /\ \E c \in CriteriaSet : DiffOf(c) = 5

FullyScored(evaluation) ==
    /\ DOMAIN evaluation.scores = CriteriaSet
    /\ \A c \in CriteriaSet : evaluation.scores[c] # None

\* C20: when the oracle's response for the original or for a rewrite lacks a
\* sub-score, the evaluation raises: control goes to the handler, no
\* rubric_scores row is stored for that text, the run ends failed with a
\* processing_error review item and re-raises; and no evaluation that is
\* compared or stored lacks a sub-score.
C20_MissingSubScoreFails ==
    \A r \in Runs :
        /\ obs[r].missing_sub_score =>
               /\ loc[r].pc \in {"except", "done"}
               /\ obs[r].first_error = "EvaluationFailed"
               /\ obs[r].failed_step \in {"evaluate_original", "evaluate_rewrite"}
               /\ obs[r].failed_step = "evaluate_original" => ScoresOf(r) = {}
               /\ \A s \in ScoresOf(r) : s.iteration_id[2] < loc[r].iteration_num
               /\ Done(r) =>
                      /\ analyses[r].status = "failed"
                      /\ ExactlyOneFlag(r, "processing_error")
                      /\ loc[r].result = Raised("EvaluationFailed")
        /\ loc[r].pc \in {"persist_score", "track_best", "check_stop"} =>
               /\ FullyScored(loc[r].original_evaluation)
               /\ FullyScored(loc[r].evaluation)
        /\ \A s \in ScoresOf(r) : FullyScored(s)

\* a run ended by a response for its first rewrite that lacked a sub-score:
\* the iteration is stored, without a score
C20_Witness ==
    \E r \in Runs :
        /\ Done(r) /\ obs[r].missing_sub_score
        /\ obs[r].failed_step = "evaluate_rewrite"
        /\ Cardinality(IterationsOf(r)) = 1
        /\ ScoresOf(r) = {}
        /\ analyses[r].status = "failed"
        /\ ExactlyOneFlag(r, "processing_error")

\* call r is at the stopping rule, after a round that scored above the
\* original
AtStopAboveOriginal(r) ==
    /\ loc[r].pc = "check_stop"
    /\ loc[r].current_score > loc[r].original_score

\* C21: after a round that scored above the original with the patience used
\* up, the next step of the call leaves the loop without a further round and
\* without a review item, and the run, if nothing raises, ends completed with
\* best_iteration_number at the best round; with patience left and rounds
\* remaining, the next step enters the next round.
C21_PatienceStopsSuccessfully ==
    /\ [][\A r \in Runs :
            (AtStopAboveOriginal(r) /\ loc'[r] # loc[r]) =>
                IF loc[r].iterations_since_improvement >= improvement_iterations
                THEN /\ loc'[r].pc = "finalize"
                     /\ loc'[r].iteration_num = loc[r].iteration_num
                     /\ review_queue' = review_queue
                ELSE (loc[r].iteration_num < max_iterations) =>
                         /\ loc'[r].pc = "rewrite"
                         /\ loc'[r].iteration_num = loc[r].iteration_num + 1]_vars
    /\ [](\A r \in Runs :
            (loc[r].pc \in {"finalize", "done"} /\ NoError(r) /\ ReachedLoop(r)
               /\ StoppedOnPatience(r)) =>
                /\ obs[r].rewriter_calls = loc[r].iteration_num
                /\ FlagsOf(r) = {}
                /\ analyses[r].best_iteration_number
                       = EarliestBest(r, Len(Totals(r)))
                /\ Done(r) => analyses[r].status = "completed")

\* a run stopped by patience with rounds left: round 1 set the best, round 2
\* scored above the original but not above round 1
C21_Witness ==
    \E r \in Runs :
        /\ Done(r) /\ NoError(r) /\ StoppedOnPatience(r)
        /\ improvement_iterations = 1
        /\ loc[r].iteration_num = 2 /\ max_iterations > 2
        /\ analyses[r].best_iteration_number = 1
        /\ analyses[r].status = "completed"
        /\ FlagsOf(r) = {}

\* C22: once a round has set a new best above the original, the call starts
\* at most improvement_iterations rounds after that round, whatever the
\* later totals are.
C22_PatienceCapsRounds ==
    \A r \in Runs :
        loc[r].best_iteration # None =>
            obs[r].rewriter_calls - loc[r].best_iteration
                <= improvement_iterations

\* the greatest of the original total and the totals of the rounds tracked
GreatestTotal(r) ==
    LET all == {loc[r].original_score} \cup {Totals(r)[k] : k \in RoundsOf(r)}
    IN  CHOOSE m \in all : \A x \in all : x <= m

\* C23: a review item failed_to_improve records the total of the original,
\* the greatest of that total and the totals of all rounds, and the number of
\* rounds made, which is max_iterations and the number of iterations stored;
\* its status is needs_review.
C23_FailedToImproveRecord ==
    \A r \in Runs :
        \A f \in FlagsOf(r) :
            f.reason = "failed_to_improve" =>
                /\ f.original_score = loc[r].original_score
                /\ f.best_achieved_score = loc[r].best_score
                /\ f.best_achieved_score = GreatestTotal(r)
                /\ f.iterations_attempted = Len(Totals(r))
                /\ f.iterations_attempted = max_iterations
                /\ f.iterations_attempted = Cardinality(IterationsOf(r))
                /\ f.status = "needs_review"

\* a review item written after two rounds or more, an earlier one of which
\* scored above the original
C23_Witness ==
    \E r \in Runs :
        \E f \in FlagsOf(r) :
            /\ f.reason = "failed_to_improve"
            /\ f.iterations_attempted >= 2
            /\ f.best_achieved_score > f.original_score

\* the rubric_scores row of round n of call r has total t
ScoredAs(r, n, t) ==
    \E s \in ScoresOf(r) : s.iteration_id = <<r, n>> /\ s.total_score = t

StatedFeedback(evaluation) ==
    LET suggestions == evaluation.improvement_suggestions
        n == IF Len(suggestions) > 3 THEN 3 ELSE Len(suggestions)
    IN  IF n > 0 THEN [given |-> TRUE, lines |-> [i \in 1..n |-> suggestions[i]]]
        ELSE IF evaluation.overall_reasoning # ""
        THEN [given |-> TRUE, lines |-> <<evaluation.overall_reasoning>>]
        ELSE [given |-> TRUE, lines |-> <<>>]

\* C25: the rewriter is given no previous feedback in round 1 and, in round
\* k > 1, the feedback of round k-1's evaluation (first three suggestions,
\* else the overall reasoning, else the empty text); in every round it is
\* given the content of the located document and the number of the round.
C25_RewriterInputs ==
    \A r \in Runs :
        \A k \in 1..Len(obs[r].rewriter_inputs) :
            LET given == obs[r].rewriter_inputs[k]
            IN  /\ given.iteration_number = k
                /\ given.original_doc = TheDoc.content
                /\ k = 1 => given.previous_feedback = NoFeedback
                /\ k > 1 => given.previous_feedback
                                = StatedFeedback(obs[r].evaluations[k - 1])

\* a second round given three of the four suggestions of the first, and a
\* third round given the overall reasoning of the second
C25_Witness ==
    \E r \in Runs :
        /\ Len(obs[r].rewriter_inputs) = 3
        /\ Len(obs[r].evaluations[1].improvement_suggestions) = 4
        /\ Len(obs[r].rewriter_inputs[2].previous_feedback.lines) = 3
        /\ obs[r].evaluations[2].improvement_suggestions = <<>>
        /\ obs[r].rewriter_inputs[3].previous_feedback.lines = <<"reasoning">>

\* C26: when the oracle answers with a sub-score outside [1,10], the
\* evaluation raises: control goes to the handler and the run ends failed
\* with a processing_error review item; no stored score and no total in use
\* has a sub-score outside the range.
C26_OutOfRangeFails ==
    \A r \in Runs :
        /\ obs[r].out_of_range_score =>
               /\ loc[r].pc \in {"except", "done"}
               /\ obs[r].first_error = "EvaluationFailed"
               /\ Done(r) =>
                      /\ analyses[r].status = "failed"
                      /\ ExactlyOneFlag(r, "processing_error")
        /\ ReachedLoop(r) => InRange(loc[r].original_evaluation.scores)
        /\ \A s \in ScoresOf(r) : InRange(s.scores)

\* the iteration numbers of a call's rewrite_iterations rows
IterationNumbers(r) == {i.iteration_number : i \in IterationsOf(r)}

\* C27: no step removes or changes a rewrite_iterations row or a
\* rubric_scores row once stored, whichever step it is (a later round, best
\* tracking, the stopping rule, the review item, the handler); and the rows
\* of a call are numbered 1..n, each number once.
C27_AppendOnly ==
    /\ [][/\ iterations \subseteq iterations'
          /\ rubric_scores \subseteq rubric_scores']_vars
    /\ [](\A r \in Runs :
              /\ IterationNumbers(r) = 1..Cardinality(IterationsOf(r))
              /\ \A i, j \in IterationsOf(r) :
                     i.iteration_number = j.iteration_number => i = j)

\* the handler has run after two iterations and a score were stored
C27_Witness ==
    \E r \in Runs :
        /\ Done(r)
        /\ analyses[r].status = "failed"
        /\ Cardinality(IterationsOf(r)) >= 2
        /\ ScoresOf(r) # {}

\* what the judge returned for the original of call r
Baseline(r) == obs[r].baselines[1]

\* the step is call r's pass through the stopping conditions after a round
StopConditionsStep(r) ==
    loc[r].pc = "check_stop" /\ loc'[r].pc # "check_stop"

\* C28: the judge is called on the original at most once per call, and once
\* when the loop is reached, before any call of the rewriter; from then on
\* the original's evaluation and total in use are what that call returned:
\* every stored score holds the comparison of its round's evaluation with it,
\* the stopping conditions after every round decide by it, and the final
\* status of a call that raised nothing is completed iff some round scored
\* above it; no iteration row holds the original's text and no score row
\* belongs to anything but a stored iteration of a round.
C28_FixedBaseline ==
    /\ [](\A r \in Runs :
            /\ obs[r].original_judge_calls <= 1
            /\ Len(obs[r].baselines) = IF ReachedLoop(r) THEN 1 ELSE 0
            /\ obs[r].original_judge_calls = 0 =>
                   /\ obs[r].rewriter_calls = 0
                   /\ IterationsOf(r) = {} /\ ScoresOf(r) = {}
            /\ ReachedLoop(r) =>
                   /\ obs[r].original_judge_calls = 1
                   /\ loc[r].original_evaluation = Baseline(r)
                   /\ loc[r].original_score = Baseline(r).total_score
                   /\ \A s \in ScoresOf(r) :
                          LET k == s.iteration_id[2]
                              comparison ==
                                  CompareScores(Baseline(r), obs[r].evaluations[k])
                          IN  /\ k \in 1..Len(obs[r].evaluations)
                              /\ \E i \in IterationsOf(r) : i.id = s.iteration_id
                              /\ s.improvement_areas = comparison.improvements
                              /\ s.regression_areas = comparison.regressions
                   /\ (Done(r) /\ NoError(r)) =>
                          analyses[r].status =
                              IF \E k \in RoundsOf(r) :
                                     Totals(r)[k] > Baseline(r).total_score
                              THEN "completed" ELSE "flagged"
            /\ \A i \in IterationsOf(r) :
                   /\ i.rewritten_content # TheDoc.content
                   /\ i.iteration_number \in 1..obs[r].rewriter_calls
            /\ Cardinality(ScoresOf(r)) <= Len(obs[r].evaluations))
    /\ [][\A r \in Runs :
            /\ ReachedLoop(r) =>
                   /\ loc'[r].original_evaluation = loc[r].original_evaluation
                   /\ loc'[r].original_score = loc[r].original_score
                   /\ obs'[r].original_judge_calls = obs[r].original_judge_calls
            /\ StopConditionsStep(r) =>
                   LET decision ==
                           DecisionAfter(Baseline(r).total_score, Totals(r),
                                         Len(Totals(r)))
                   IN  /\ obs'[r].flag_attempts > obs[r].flag_attempts
                           <=> decision = "flag_and_break"
                       /\ loc'[r].pc = "rewrite" => decision = "continue"
                       /\ decision = "break" => loc'[r].pc = "finalize"]_vars

\* a call that raised nothing has ended completed after a round above the
\* original and a later round below it, each with its score stored
C28_Witness ==
    \E r \in Runs :
        /\ Done(r) /\ NoError(r)
        /\ analyses[r].status = "completed"
        /\ Cardinality(ScoresOf(r)) >= 2
        /\ \E j, k \in RoundsOf(r) :
               /\ j < k
               /\ Totals(r)[j] > Baseline(r).total_score
               /\ Totals(r)[k] < Baseline(r).total_score

\* C29: once a run has terminated, a status completed comes with no review
\* item, a status flagged with exactly one review item, failed_to_improve,
\* and a status failed with exactly one review item, no_docs_found or
\* processing_error.
C29_StatusMatchesFlag ==
    \A r \in Runs :
        Terminated(r) =>
            /\ analyses[r].status = "completed" => FlagsOf(r) = {}
            /\ analyses[r].status = "flagged" =>
                   ExactlyOneFlag(r, "failed_to_improve")
            /\ analyses[r].status = "failed" =>
                   /\ Cardinality(FlagsOf(r)) = 1
                   /\ \A f \in FlagsOf(r) :
                          f.reason \in {"no_docs_found", "processing_error"}

\* the issues rows with the number call r was given
IssueRowsOf(r) == {i \in issues : i.issue_number = loc[r].issue_number}

\* call r ended before its analysis was created because fetching the issue
\* or a commit failed by itself
AbortedByFault(r) ==
    /\ obs[r].first_error \in {"GithubError", "DBError"}
    /\ obs[r].failed_step \in {"get_issue", "upsert_issue", "create_analysis"}

\* C30: when two calls for the same issue number interleave, the table
\* never holds two rows with that number, and each call that has ended,
\* unless fetching the issue or a commit of its own failed, has found or
\* stored the one issue row and has its own analysis, with iterations and
\* scores of its own and at most one review item: no call is aborted by the
\* other's insert.
C30_SameIssueBothStart ==
    \A r \in Runs :
        /\ Cardinality(IssueRowsOf(r)) <= 1
        /\ (Done(r) /\ ~AbortedByFault(r)) =>
               /\ Cardinality(IssueRowsOf(r)) = 1
               /\ Started(r)
               /\ \A i \in IssueRowsOf(r) : analyses[r].issue_id = i.id
               /\ Cardinality(FlagsOf(r)) <= 1
               /\ \A q \in Runs \ {r} :
                      /\ IterationsOf(r) \cap IterationsOf(q) = {}
                      /\ ScoresOf(r) \cap ScoresOf(q) = {}

====
